---- MODULE Spec2Model ----
(***************************************************************************)
(* Model of mcp_adb: the ADBTools facade (mcp_adb/adb_tools.py) and the    *)
(* MCP tool dispatch handler (mcp_adb/server.py).                          *)
(*                                                                         *)
(* Text.  A Python str is a sequence of atoms.  An atom is either one of   *)
(* the characters the code inspects (space, tab, newline, ':', '[', ']')   *)
(* or a maximal non-empty run of other characters ("mock_device_001").     *)
(* Every string operation of the code (strip, split, join, in, +) looks    *)
(* only at the inspected characters, so it acts on atoms exactly as it     *)
(* acts on characters.                                                     *)
(*                                                                         *)
(* Optional[str].  None is the empty tuple, a string s is <<s>>.           *)
(*                                                                         *)
(* Results.  A Python call either returns or raises; both are a record     *)
(* with the value / exception class / exception text and the trace of      *)
(* backend invocations ("spawn", "mock") and facade entries it made.       *)
(***************************************************************************)
EXTENDS Integers, Sequences, FiniteSets, TLC

VARIABLES
    ctor,        \* what the ADBTools constructor was given: [adb_path, mock_mode, probe]
    adb_tools,   \* the ADBTools object (MCPADBServer.adb_tools): [adb_path, mock_mode]
    entry,       \* the call in progress: "idle", "dispatch", "facade", "runner",
                 \* or, for the Mock Responder alone, "input" and "mock"
    req,         \* its inputs: [name, arguments, outcome]
    resp,        \* what it returned or raised (a result record)
    failures,    \* how many earlier calls failed (counted up to MaxFailures)
    tasks        \* the facade coroutines in flight on the event loop, by task id:
                 \* [pc, req, process, spawned, resp]

vars == <<ctor, adb_tools, entry, req, resp, failures, tasks>>

----------------------------------------------------------------------------
(* Text helpers: Python's str methods on atom sequences.                   *)

SP == " "
TAB == "\t"
NL == "\n"

Whitespace == {SP, TAB, NL}

RECURSIVE LStrip(_, _)
LStrip(s, chars) ==
    IF s # <<>> /\ Head(s) \in chars THEN LStrip(Tail(s), chars) ELSE s

RECURSIVE RStrip(_, _)
RStrip(s, chars) ==
    IF s # <<>> /\ s[Len(s)] \in chars
    THEN RStrip(SubSeq(s, 1, Len(s) - 1), chars)
    ELSE s

\* str.strip(chars)
Strip(s, chars) == RStrip(LStrip(s, chars), chars)

\* str.strip() with no argument
Trim(s) == Strip(s, Whitespace)

\* sep.join(list) with a one-character separator
RECURSIVE Join(_, _)
Join(list, sep) ==
    IF list = <<>> THEN <<>>
    ELSE IF Len(list) = 1 THEN list[1]
    ELSE list[1] \o <<sep>> \o Join(Tail(list), sep)

\* str.split(sep) with a one-character separator: never empty, keeps empty pieces
RECURSIVE SplitOn(_, _)
SplitOn(s, sep) ==
    IF \E i \in 1..Len(s) : s[i] = sep
    THEN LET i == CHOOSE j \in 1..Len(s) :
                      s[j] = sep /\ \A k \in 1..(j - 1) : s[k] # sep
         IN  <<SubSeq(s, 1, i - 1)>> \o SplitOn(SubSeq(s, i + 1, Len(s)), sep)
    ELSE <<s>>

\* str.split() with no argument: runs of whitespace separate, no empty pieces
RECURSIVE SplitWs(_)
SplitWs(s) ==
    LET t == LStrip(s, Whitespace)
    IN  IF t = <<>> THEN <<>>
        ELSE IF \E i \in 1..Len(t) : t[i] \in Whitespace
        THEN LET i == CHOOSE j \in 1..Len(t) :
                          t[j] \in Whitespace /\ \A k \in 1..(j - 1) : t[k] \notin Whitespace
             IN  <<SubSeq(t, 1, i - 1)>> \o SplitWs(SubSeq(t, i, Len(t)))
        ELSE <<t>>

\* the positions where pat occurs in s
Occurrences(s, pat) ==
    {i \in 1..(Len(s) - Len(pat) + 1) : SubSeq(s, i, i + Len(pat) - 1) = pat}

\* pat in s
Contains(s, pat) == Occurrences(s, pat) # {}

\* str.split(pat, 1): <<s>> when pat is absent, else the text before and after
\* its first occurrence
SplitFirst(s, pat) ==
    IF ~Contains(s, pat) THEN <<s>>
    ELSE LET i == CHOOSE j \in Occurrences(s, pat) :
                      \A k \in Occurrences(s, pat) : j <= k
         IN  <<SubSeq(s, 1, i - 1), SubSeq(s, i + Len(pat), Len(s))>>

\* list[lo:hi] of the code (0-based, hi excluded, both clamped to the list)
Slice(list, lo, hi) ==
    LET h == IF hi < Len(list) THEN hi ELSE Len(list)
    IN  IF lo >= h THEN <<>> ELSE SubSeq(list, lo + 1, h)

\* x in list
In(x, list) == \E i \in 1..Len(list) : list[i] = x

\* list.index(x), 1-based here
Index(x, list) == CHOOSE i \in 1..Len(list) : list[i] = x /\ \A k \in 1..(i - 1) : list[k] # x

\* d[key] = value on a dict
DictSet(d, key, value) ==
    [k \in DOMAIN d \cup {key} |-> IF k = key THEN value ELSE d[k]]

EmptyDict == [k \in {} |-> <<>>]

----------------------------------------------------------------------------
(* Optional values and call results.                                       *)

None == <<>>
Some(s) == <<s>>

\* Python truthiness of an Optional[str]: None and "" are falsy
Truthy(opt) == opt # None /\ opt[1] # <<>>

Return(v, tr) == [ok |-> TRUE, val |-> v, exc |-> "", msg |-> <<>>, trace |-> tr]
Raise(cls, m, tr) == [ok |-> FALSE, val |-> <<>>, exc |-> cls, msg |-> m, trace |-> tr]

\* a one-atom string
W(a) == <<a>>

----------------------------------------------------------------------------
(* Command Runner: ADBTools._run_command, and the Mock Responder.          *)

\* The child process of one call, as the operating system decides it:
\*   kind "exit"     the child ran and ended with `code`, `stdout`, `stderr`
\*   kind "notfound" create_subprocess_exec raised FileNotFoundError
\*   kind "launch"   create_subprocess_exec raised another OSError (`cause`)
\*   kind "io"       the child started and communicate() raised (`cause`)
Outcome(kind, code, stdout, stderr, cause) ==
    [kind |-> kind, code |-> code, stdout |-> stdout, stderr |-> stderr, cause |-> cause]

\* mutant: the mock listing without its header line
MockDevicesText_noHeader ==
    <<"mock_device_001", TAB, "device", SP, "usb", ":", "1-1", SP,
      "product", ":", "sdk_gphone64_x86_64", SP,
      "model", ":", "Android_SDK_built_for_x86_64", SP,
      "device", ":", "generic_x86_64", NL,
      "mock_device_002", TAB, "device", SP, "usb", ":", "1-2", SP,
      "product", ":", "pixel7", SP, "model", ":", "Pixel_7", SP,
      "device", ":", "pixel7">>

MockDevicesText ==
    <<"List", SP, "of", SP, "devices", SP, "attached", NL,
      "mock_device_001", TAB, "device", SP, "usb", ":", "1-1", SP,
      "product", ":", "sdk_gphone64_x86_64", SP,
      "model", ":", "Android_SDK_built_for_x86_64", SP,
      "device", ":", "generic_x86_64", NL,
      "mock_device_002", TAB, "device", SP, "usb", ":", "1-2", SP,
      "product", ":", "pixel7", SP, "model", ":", "Pixel_7", SP,
      "device", ":", "pixel7">>

MockGetpropText ==
    <<"[", "ro.build.version.release", "]", ":", SP, "[", "14", "]", NL,
      "[", "ro.product.manufacturer", "]", ":", SP, "[", "Google", "]", NL,
      "[", "ro.product.model", "]", ":", SP,
          "[", "Android", SP, "SDK", SP, "built", SP, "for", SP, "x86_64", "]", NL,
      "[", "ro.build.display.id", "]", ":", SP, "[", "UpsideDownCake", "]", NL,
      "[", "ro.hardware", "]", ":", SP, "[", "ranchu", "]">>

MockOutputPrefix == <<"Mock", SP, "command", SP, "output", SP, "for", ":", SP>>
MockResponsePrefix == <<"Mock", SP, "response", SP, "for", ":", SP>>
IndexErrorText == <<"list", SP, "index", SP, "out", SP, "of", SP, "range">>

\* args[i] of the code (0-based there, 1-based here) exists
Has(args, i) == i <= Len(args)

_run_mock_command(self, args) ==
    IF args = <<W("devices"), W("-l")>>
    THEN Return(MockDevicesText, <<"mock">>)
    \* args[0] == "shell" and args[1] == "getprop": indexing raises on a short list
    ELSE IF ~Has(args, 1)
    THEN Raise("IndexError", IndexErrorText, <<"mock">>)
    ELSE IF args[1] = W("shell") /\ ~Has(args, 2)
    THEN Raise("IndexError", IndexErrorText, <<"mock">>)
    ELSE IF args[1] = W("shell") /\ args[2] = W("getprop")
    THEN Return(MockGetpropText, <<"mock">>)
    ELSE IF /\ Slice(args, 0, 2) = <<W("-s"), W("mock_device_001")>>
            /\ Slice(args, 2, Len(args)) = <<W("shell"), W("getprop")>>
    THEN Return(MockGetpropText, <<"mock">>)
    ELSE IF In(W("shell"), args)
    THEN LET cmd_part == Join(Slice(args, Index(W("shell"), args), Len(args)), SP)
         IN  Return(MockOutputPrefix \o cmd_part, <<"mock">>)
    ELSE IF In(W("install"), args)
    THEN Return(W("Success"), <<"mock">>)
    ELSE IF In(W("uninstall"), args)
    THEN Return(W("Success"), <<"mock">>)
    ELSE IF In(W("push"), args) \/ In(W("pull"), args)
    THEN Return(<<"Transferred", SP, "successfully">>, <<"mock">>)
    ELSE Return(MockResponsePrefix \o Join(args, SP), <<"mock">>)

CommandFailedPrefix == <<"ADB", SP, "command", SP, "failed", ":", SP>>
NotFoundPrefix == <<"ADB", SP, "executable", SP, "not", SP, "found", SP, "at", ":", SP>>
ExecutionErrorPrefix ==
    <<"Failed", SP, "to", SP, "execute", SP, "ADB", SP, "command", ":", SP>>

\* the try block of _run_command: launch, communicate, check the exit status
RunTryBody(self, args, outcome) ==
    CASE outcome.kind = "notfound" ->
           Raise("FileNotFoundError", outcome.cause, <<"run">>)
      [] outcome.kind = "launch" ->
           Raise("PermissionError", outcome.cause, <<"run">>)
      [] outcome.kind = "io" ->
           Raise("BrokenPipeError", outcome.cause, <<"run", "spawn">>)
      [] outcome.kind = "exit" ->
           IF outcome.code # 0
           THEN Raise("ADBError", CommandFailedPrefix \o Trim(outcome.stderr),
                      <<"run", "spawn">>)
           ELSE Return(Trim(outcome.stdout), <<"run", "spawn">>)

\* a result together with the argument vector _run_command was called with
\* (what the tests read with assert_called_once_with)
CalledWith(args, result) == [argv |-> args] @@ result

_run_command(self, args, outcome) ==
    CalledWith(args,
        IF self.mock_mode
        THEN _run_mock_command(self, args)
        ELSE LET r == RunTryBody(self, args, outcome)
             IN  IF r.ok THEN r
                 \* except FileNotFoundError
                 ELSE IF r.exc = "FileNotFoundError"
                 THEN Raise("ADBError", NotFoundPrefix \o self.adb_path, r.trace)
                 \* except Exception: every other class, ADBError of the try block included
                 ELSE Raise("ADBError", ExecutionErrorPrefix \o r.msg, r.trace))

----------------------------------------------------------------------------
(* Device Operations Facade: the public methods of ADBTools.               *)

\* the body of list_devices' loop over parts[2:]
RECURSIVE DeviceProps(_, _)
DeviceProps(device_info, parts) ==
    IF parts = <<>> THEN device_info
    ELSE LET part == Head(parts)
         IN  IF Contains(part, <<":">>)
             THEN LET kv == SplitFirst(part, <<":">>)
                  IN  DeviceProps(DictSet(device_info, kv[1], kv[2]), Tail(parts))
             ELSE DeviceProps(device_info, Tail(parts))

\* the loop of list_devices over the lines after the header
RECURSIVE ParseDevices(_)
ParseDevices(lines) ==
    IF lines = <<>> THEN <<>>
    ELSE LET line == Head(lines)
             parts == SplitWs(line)
         IN  IF Trim(line) # <<>> /\ Len(parts) >= 2
             THEN LET device_info ==
                          DictSet(DictSet(EmptyDict, W("id"), parts[1]), W("status"), parts[2])
                  IN  <<DeviceProps(device_info, Slice(parts, 2, Len(parts)))>>
                          \o ParseDevices(Tail(lines))
             ELSE ParseDevices(Tail(lines))

\* mutant: list_devices swallows the runner's failure into an empty list
list_devices_swallow(self, outcome) ==
    LET r == _run_command(self, <<W("devices"), W("-l")>>, outcome)
        tr == <<"list_devices">> \o r.trace
    IN  CalledWith(r.argv,
            IF ~r.ok THEN Return(<<>>, tr)
            ELSE Return(ParseDevices(Tail(SplitOn(r.val, NL))), tr))

list_devices(self, outcome) ==
    LET r == _run_command(self, <<W("devices"), W("-l")>>, outcome)
        tr == <<"list_devices">> \o r.trace
    IN  CalledWith(r.argv,
            IF ~r.ok THEN Raise(r.exc, r.msg, tr)
            ELSE Return(ParseDevices(Tail(SplitOn(r.val, NL))), tr))

\* mutant: the first line of a key is kept, later lines of the key are skipped
RECURSIVE ParseProps_firstWins(_, _)
ParseProps_firstWins(props, lines) ==
    IF lines = <<>> THEN props
    ELSE LET line == Head(lines)
             parts == SplitFirst(line, <<":", SP, "[">>)
         IN  IF /\ Contains(line, <<":", SP, "[">>) /\ Len(parts) = 2
                /\ Strip(parts[1], {"[", "]"}) \notin DOMAIN props
             THEN ParseProps_firstWins(DictSet(props, Strip(parts[1], {"[", "]"}),
                                               RStrip(parts[2], {"]"})),
                                       Tail(lines))
             ELSE ParseProps_firstWins(props, Tail(lines))

\* the loop of get_device_info over the lines of the dump
RECURSIVE ParseProps(_, _)
ParseProps(props, lines) ==
    IF lines = <<>> THEN props
    ELSE LET line == Head(lines)
             parts == SplitFirst(line, <<":", SP, "[">>)
         IN  IF Contains(line, <<":", SP, "[">>) /\ Len(parts) = 2
             THEN ParseProps(DictSet(props, Strip(parts[1], {"[", "]"}),
                                     RStrip(parts[2], {"]"})),
                             Tail(lines))
             ELSE ParseProps(props, Tail(lines))

\* mutant: the selector is added for every device_id that is not None
Selector_notNone(device_id) ==
    IF device_id # None THEN <<W("-s"), device_id[1]>> ELSE <<>>

\* cmd_args = []; if device_id: cmd_args.extend(["-s", device_id])
Selector(device_id) ==
    IF Truthy(device_id) THEN <<W("-s"), device_id[1]>> ELSE <<>>

get_device_info(self, device_id, outcome) ==
    LET cmd_args == Selector(device_id) \o <<W("shell"), W("getprop")>>
        r == _run_command(self, cmd_args, outcome)
        tr == <<"get_device_info">> \o r.trace
    IN  CalledWith(r.argv,
            IF ~r.ok THEN Raise(r.exc, r.msg, tr)
            ELSE Return(ParseProps(EmptyDict, SplitOn(r.val, NL)), tr))

shell_command(self, command, device_id, outcome) ==
    LET cmd_args == Selector(device_id) \o <<W("shell"), command>>
        r == _run_command(self, cmd_args, outcome)
        tr == <<"shell_command">> \o r.trace
    IN  CalledWith(r.argv,
            IF ~r.ok THEN Raise(r.exc, r.msg, tr) ELSE Return(r.val, tr))

install_app(self, apk_path, device_id, outcome) ==
    LET cmd_args == Selector(device_id) \o <<W("install"), apk_path>>
        r == _run_command(self, cmd_args, outcome)
        tr == <<"install_app">> \o r.trace
    IN  CalledWith(r.argv,
            IF r.ok THEN Return(TRUE, tr)
            ELSE IF r.exc = "ADBError" THEN Return(FALSE, tr)
            ELSE Raise(r.exc, r.msg, tr))

\* mutant: uninstall_app without its except clause
uninstall_app_raises(self, package_name, device_id, outcome) ==
    LET cmd_args == Selector(device_id) \o <<W("uninstall"), package_name>>
        r == _run_command(self, cmd_args, outcome)
        tr == <<"uninstall_app">> \o r.trace
    IN  CalledWith(r.argv,
            IF r.ok THEN Return(TRUE, tr) ELSE Raise(r.exc, r.msg, tr))

uninstall_app(self, package_name, device_id, outcome) ==
    LET cmd_args == Selector(device_id) \o <<W("uninstall"), package_name>>
        r == _run_command(self, cmd_args, outcome)
        tr == <<"uninstall_app">> \o r.trace
    IN  CalledWith(r.argv,
            IF r.ok THEN Return(TRUE, tr)
            ELSE IF r.exc = "ADBError" THEN Return(FALSE, tr)
            ELSE Raise(r.exc, r.msg, tr))

push_file(self, local_path, remote_path, device_id, outcome) ==
    LET cmd_args == Selector(device_id) \o <<W("push"), local_path, remote_path>>
        r == _run_command(self, cmd_args, outcome)
        tr == <<"push_file">> \o r.trace
    IN  CalledWith(r.argv,
            IF r.ok THEN Return(TRUE, tr)
            ELSE IF r.exc = "ADBError" THEN Return(FALSE, tr)
            ELSE Raise(r.exc, r.msg, tr))

pull_file(self, remote_path, local_path, device_id, outcome) ==
    LET cmd_args == Selector(device_id) \o <<W("pull"), remote_path, local_path>>
        r == _run_command(self, cmd_args, outcome)
        tr == <<"pull_file">> \o r.trace
    IN  CalledWith(r.argv,
            IF r.ok THEN Return(TRUE, tr)
            ELSE IF r.exc = "ADBError" THEN Return(FALSE, tr)
            ELSE Raise(r.exc, r.msg, tr))

----------------------------------------------------------------------------
(* Tool Dispatch Layer: MCPADBServer's handle_call_tool.                   *)

\* arguments.get(key)
ArgGet(arguments, key) ==
    IF key \in DOMAIN arguments THEN Some(arguments[key]) ELSE None

\* str(KeyError(key)): the key's repr
KeyErrorText(key) ==
    CASE key = "command" -> W("'command'")
      [] key = "apk_path" -> W("'apk_path'")
      [] key = "package_name" -> W("'package_name'")
      [] key = "local_path" -> W("'local_path'")
      [] key = "remote_path" -> W("'remote_path'")
      [] key = "device_id" -> W("'device_id'")

\* arguments[key] on a missing key
MissingKey(key) == Raise("KeyError", KeyErrorText(key), <<>>)

\* mutant: the unknown name is reported as an ADB failure
UnknownTool_asADBError(name) ==
    Raise("ADBError", <<"Unknown", SP, "tool", ":", SP, name>>, <<>>)

\* the final else of the dispatch chain: raise ValueError(f"Unknown tool: {name}")
UnknownTool(name) ==
    Raise("ValueError", <<"Unknown", SP, "tool", ":", SP, name>>, <<>>)

\* result = {...} once the facade call returned, or the exception it raised
Wrap(r, result) == IF r.ok THEN Return(result, r.trace) ELSE r

\* the try block of handle_call_tool up to `result = ...`
CallToolBody(self, name, arguments, outcome) ==
    IF name = "list_devices"
    THEN LET r == list_devices(self, outcome)
         IN  Wrap(r, [devices |-> r.val, count |-> Len(r.val)])
    ELSE IF name = "get_device_info"
    THEN LET r == get_device_info(self, ArgGet(arguments, "device_id"), outcome)
         IN  Wrap(r, [device_info |-> r.val])
    ELSE IF name = "shell_command"
    THEN IF "command" \notin DOMAIN arguments THEN MissingKey("command")
         ELSE LET r == shell_command(self, arguments["command"],
                                     ArgGet(arguments, "device_id"), outcome)
              IN  Wrap(r, [output |-> r.val])
    ELSE IF name = "install_app"
    THEN IF "apk_path" \notin DOMAIN arguments THEN MissingKey("apk_path")
         ELSE LET r == install_app(self, arguments["apk_path"],
                                   ArgGet(arguments, "device_id"), outcome)
              IN  Wrap(r, [success |-> r.val])
    ELSE IF name = "push_file"
    THEN IF "local_path" \notin DOMAIN arguments THEN MissingKey("local_path")
         ELSE IF "remote_path" \notin DOMAIN arguments THEN MissingKey("remote_path")
         ELSE LET r == push_file(self, arguments["local_path"], arguments["remote_path"],
                                 ArgGet(arguments, "device_id"), outcome)
              IN  Wrap(r, [success |-> r.val])
    ELSE IF name = "pull_file"
    THEN IF "remote_path" \notin DOMAIN arguments THEN MissingKey("remote_path")
         ELSE IF "local_path" \notin DOMAIN arguments THEN MissingKey("local_path")
         ELSE LET r == pull_file(self, arguments["remote_path"], arguments["local_path"],
                                 ArgGet(arguments, "device_id"), outcome)
              IN  Wrap(r, [success |-> r.val])
    ELSE UnknownTool(name)

\* [TextContent(type="text", text=json.dumps(obj, indent=2))]; the JSON text is
\* represented by the object it encodes
TextContent(obj) == <<[type |-> "text", text |-> obj]>>

\* mutant: the handler without its catch-all except clause
handle_call_tool_noCatchAll(self, name, arguments, outcome) ==
    LET r == CallToolBody(self, name, arguments, outcome)
    IN  IF r.ok THEN Return(TextContent(r.val), r.trace)
        ELSE IF r.exc = "ADBError"
        THEN Return(TextContent([error |-> r.msg, type |-> "ADBError"]), r.trace)
        ELSE r

handle_call_tool(self, name, arguments, outcome) ==
    LET r == CallToolBody(self, name, arguments, outcome)
    IN  IF r.ok THEN Return(TextContent(r.val), r.trace)
        \* except ADBError
        ELSE IF r.exc = "ADBError"
        THEN Return(TextContent([error |-> r.msg, type |-> "ADBError"]), r.trace)
        \* except Exception
        ELSE Return(TextContent([error |-> r.msg, type |-> "UnknownError"]), r.trace)

----------------------------------------------------------------------------
(* The tool registry of mcp_adb/tools/adb_tools.py.                        *)

ADB_TOOLS ==
    << [name |-> "list_devices",    required |-> {}],
       [name |-> "get_device_info", required |-> {}],
       [name |-> "shell_command",   required |-> {"command"}],
       [name |-> "install_app",     required |-> {"apk_path"}],
       [name |-> "uninstall_app",   required |-> {"package_name"}],
       [name |-> "push_file",       required |-> {"local_path", "remote_path"}],
       [name |-> "pull_file",       required |-> {"remote_path", "local_path"}] >>

get_all_tool_names == {ADB_TOOLS[i].name : i \in 1..Len(ADB_TOOLS)}

get_tool_by_name(name) == CHOOSE t \in {ADB_TOOLS[i] : i \in 1..Len(ADB_TOOLS)} : t.name = name

----------------------------------------------------------------------------
(* Inputs.                                                                 *)

\* tool names a client may send: the registry's, and two it does not hold
ToolNames == get_all_tool_names \cup {"reboot", "start_app"}

ArgKeys == {"command", "apk_path", "package_name", "local_path", "remote_path", "device_id"}

ArgValues(key) ==
    CASE key = "command" -> {W("getprop"), <<"ls", SP, "/">>}
      [] key = "apk_path" -> {W("/tmp/app.apk")}
      [] key = "package_name" -> {W("com.example.app")}
      [] key = "local_path" -> {W("/tmp/test.txt")}
      [] key = "remote_path" -> {W("/data/test.txt")}
      [] key = "device_id" -> {<<>>, W("mock_device_001"), W("mock_device_002")}

\* every argument bag over the keys: any subset of them, each with one of its values
ArgBags ==
    LET full == [command : ArgValues("command"), apk_path : ArgValues("apk_path"),
                 package_name : ArgValues("package_name"),
                 local_path : ArgValues("local_path"),
                 remote_path : ArgValues("remote_path"),
                 device_id : ArgValues("device_id")]
    IN  {[k \in keys |-> f[k]] : f \in full, keys \in SUBSET ArgKeys}

DeviceLine ==
    <<"1234567890abcdef", TAB, "device", SP, "usb", ":", "1-1", SP,
      "product", ":", "test_product", SP, "model", ":", "Test_Model">>

Stdouts ==
    { <<>>,
      <<"List", SP, "of", SP, "devices", SP, "attached", NL, NL>>,
      <<"List", SP, "of", SP, "devices", SP, "attached", NL>> \o DeviceLine \o <<NL, NL>>,
      <<"[", "ro.hardware", "]", ":", SP, "[", "qcom", "]", NL,
        "[", "ro.hardware", "]", ":", SP, "[", "ranchu", "]", NL>>,
      <<"Success", NL>> }

Stderrs ==
    { <<"device", SP, "not", SP, "found">>,
      <<"error", ":", SP, "device", SP, "offline", NL>>,
      <<>> }

NoOutcome == Outcome("none", 0, <<>>, <<>>, <<>>)

Outcomes ==
    {Outcome("exit", 0, out, <<>>, <<>>) : out \in Stdouts}
    \cup {Outcome("exit", 1, <<>>, err, <<>>) : err \in Stderrs}
    \cup {Outcome("notfound", 0, <<>>, <<>>,
                  <<"[", "Errno", SP, "2", "]", SP, "No", SP, "such", SP, "file">>),
          Outcome("launch", 0, <<>>, <<>>,
                  <<"[", "Errno", SP, "13", "]", SP, "Permission", SP, "denied">>),
          Outcome("io", 0, <<>>, <<>>,
                  <<"[", "Errno", SP, "32", "]", SP, "Broken", SP, "pipe">>)}

\* the child process a call may meet: none is ever started in mock mode
OutcomesFor(self) == IF self.mock_mode THEN {NoOutcome} ELSE Outcomes

\* argument vectors for a direct call of _run_command
RunnerArgs ==
    { <<W("devices"), W("-l")>>,
      <<W("shell"), W("getprop")>>,
      <<W("shell"), W("getprop"), W("ro.hardware")>>,
      <<W("-s"), W("mock_device_001"), W("shell"), W("getprop")>>,
      <<W("-s"), W("mock_device_002"), W("shell"), W("getprop")>>,
      <<W("-s"), W("emulator-5554"), W("install"), W("/tmp/app.apk")>> }

\* the failures counted before a call
MaxFailures == 2

\* the longest argument list given to the Mock Responder alone
MaxArgs == 4

MockTokens ==
    {"devices", "-l", "shell", "getprop", "-s", "mock_device_001", "mock_device_002",
     "install", "uninstall", "push", "pull", "version"}

MockArgLists == UNION {[1..n -> {W(t) : t \in MockTokens}] : n \in 0..MaxArgs}

AdbPaths == {W("adb"), W("/opt/android/platform-tools/adb")}

\* what ADBTools(adb_path, mock_mode) may be given, with the result of its probe
\* `adb version` ("skipped" when mock mode is requested)
CtorInputs ==
    {[adb_path |-> p, mock_mode |-> TRUE, probe |-> "skipped"] : p \in AdbPaths}
    \cup {[adb_path |-> p, mock_mode |-> FALSE, probe |-> pr] :
              p \in AdbPaths, pr \in {"ok", "notfound", "failed"}}

----------------------------------------------------------------------------
(* The state machine.                                                      *)

\* mutant: only the probe's FileNotFoundError turns mock mode on
ADBTools_init_onlyNotFound(c) ==
    [adb_path |-> c.adb_path,
     mock_mode |-> IF ~c.mock_mode /\ c.probe = "notfound" THEN TRUE ELSE c.mock_mode]

\* ADBTools.__init__: the probe's FileNotFoundError / CalledProcessError turn
\* mock mode on
ADBTools_init(c) ==
    [adb_path |-> c.adb_path,
     mock_mode |-> IF ~c.mock_mode /\ c.probe \in {"notfound", "failed"}
                   THEN TRUE ELSE c.mock_mode]

Request(name, arguments, outcome) ==
    [name |-> name, arguments |-> arguments, outcome |-> outcome]

NoRequest == Request("", EmptyDict, NoOutcome)
NoResponse == Return(<<>>, <<>>)

\* the facade calls that may be in flight at once
MaxTasks == 2

\* a task slot without a coroutine
NoTask == [pc |-> "idle", req |-> NoRequest, process |-> NoOutcome, spawned |-> 0,
           resp |-> NoResponse]

NoTasks == [i \in 1..MaxTasks |-> NoTask]

Init ==
    /\ ctor \in CtorInputs
    /\ adb_tools = ADBTools_init(ctor)
    /\ entry = "idle"
    /\ req = NoRequest
    /\ resp = NoResponse
    /\ failures = 0
    /\ tasks = NoTasks

\* mutant: a call that ends in ADBError switches the facade to mock mode
HandleCallTool_fallback(name, arguments, outcome) ==
    LET r == handle_call_tool(adb_tools, name, arguments, outcome)
    IN  /\ entry' = "dispatch"
        /\ req' = Request(name, arguments, outcome)
        /\ resp' = r
        /\ adb_tools' = IF "error" \in DOMAIN r.val[1].text /\ r.val[1].text.type = "ADBError"
                        THEN [adb_tools EXCEPT !.mock_mode = TRUE]
                        ELSE adb_tools
        /\ UNCHANGED <<ctor, failures, tasks>>

\* a client's call_tool request: the handler runs to its return
HandleCallTool(name, arguments, outcome) ==
    /\ entry' = "dispatch"
    /\ req' = Request(name, arguments, outcome)
    /\ resp' = handle_call_tool(adb_tools, name, arguments, outcome)
    /\ UNCHANGED <<ctor, adb_tools, failures, tasks>>

\* a direct call of a facade method with keyword arguments (test_mock.py,
\* examples/basic_usage.py); the required parameters are present
facade_call(self, name, arguments, outcome) ==
    LET device_id == ArgGet(arguments, "device_id")
    IN  CASE name = "list_devices" -> list_devices(self, outcome)
          [] name = "get_device_info" -> get_device_info(self, device_id, outcome)
          [] name = "shell_command" ->
               shell_command(self, arguments["command"], device_id, outcome)
          [] name = "install_app" ->
               install_app(self, arguments["apk_path"], device_id, outcome)
          [] name = "uninstall_app" ->
               uninstall_app(self, arguments["package_name"], device_id, outcome)
          [] name = "push_file" ->
               push_file(self, arguments["local_path"], arguments["remote_path"],
                         device_id, outcome)
          [] name = "pull_file" ->
               pull_file(self, arguments["remote_path"], arguments["local_path"],
                         device_id, outcome)

FacadeCall(name, arguments, outcome) ==
    /\ DOMAIN arguments \subseteq get_tool_by_name(name).required \cup {"device_id"}
    /\ get_tool_by_name(name).required \subseteq DOMAIN arguments
    /\ entry' = "facade"
    /\ req' = Request(name, arguments, outcome)
    /\ resp' = facade_call(adb_tools, name, arguments, outcome)
    /\ UNCHANGED <<ctor, adb_tools, failures, tasks>>

\* a direct call of the Command Runner (the tests patch and call it)
RunnerCall(args, outcome) ==
    /\ entry' = "runner"
    /\ req' = Request("_run_command", args, outcome)
    /\ resp' = _run_command(adb_tools, args, outcome)
    /\ UNCHANGED <<ctor, adb_tools, failures, tasks>>

\* the call in progress failed: it raised, or answered with an error object
CallFailed ==
    \/ ~resp.ok
    \/ entry = "dispatch" /\ "error" \in DOMAIN resp.val[1].text

\* the call's result goes back to the caller and its frame is gone
ReturnToCaller ==
    /\ entry \in {"dispatch", "facade", "runner"}
    /\ entry' = "idle"
    /\ req' = NoRequest
    /\ resp' = NoResponse
    /\ failures' = IF CallFailed /\ failures < MaxFailures THEN failures + 1 ELSE failures
    /\ UNCHANGED <<ctor, adb_tools, tasks>>

Dispatch ==
    /\ entry = "idle"
    /\ \E name \in ToolNames, arguments \in ArgBags, outcome \in OutcomesFor(adb_tools) :
           HandleCallTool(name, arguments, outcome)

Facade ==
    /\ entry = "idle"
    /\ \E name \in get_all_tool_names, arguments \in ArgBags,
          outcome \in OutcomesFor(adb_tools) :
           FacadeCall(name, arguments, outcome)

Runner ==
    /\ entry = "idle"
    /\ \E args \in RunnerArgs, outcome \in OutcomesFor(adb_tools) :
           RunnerCall(args, outcome)

Next == Dispatch \/ Facade \/ Runner \/ ReturnToCaller

Spec == Init /\ [][Next]_vars

----------------------------------------------------------------------------
(* The Mock Responder alone, on every argument list up to MaxArgs tokens.  *)

InitMock ==
    /\ ctor = [adb_path |-> W("adb"), mock_mode |-> TRUE, probe |-> "skipped"]
    /\ adb_tools = ADBTools_init(ctor)
    /\ entry = "input"
    /\ req \in {Request("_run_mock_command", args, NoOutcome) : args \in MockArgLists}
    /\ resp = NoResponse
    /\ failures = 0
    /\ tasks = NoTasks

MockCall ==
    /\ entry = "input"
    /\ entry' = "mock"
    /\ resp' = _run_mock_command(adb_tools, req.arguments)
    /\ UNCHANGED <<ctor, adb_tools, req, failures, tasks>>

NextMock == MockCall

SpecMock == InitMock /\ [][NextMock]_vars

----------------------------------------------------------------------------
(* Vocabulary of the properties.                                           *)

\* the JSON object of the dispatch response in progress
ResponseObject == resp.val[1].text

IsErrorObject(o) == DOMAIN o = {"error", "type"}

\* the request in progress carries every key its tool requires
RequiredPresent == get_tool_by_name(req.name).required \subseteq DOMAIN req.arguments

\* no Command Runner or Mock Responder invocation in a trace
NoBackend(tr) == ~In("run", tr) /\ ~In("spawn", tr) /\ ~In("mock", tr)

\* the child process of the request in progress signalled a failure
RunnerFailed == req.outcome.kind # "exit" \/ req.outcome.code # 0

ReadOps == {"list_devices", "get_device_info", "shell_command"}
BoolOps == {"install_app", "uninstall_app", "push_file", "pull_file"}

\* the keys of a tool's success object
SuccessKeys(name) ==
    CASE name = "list_devices" -> {"devices", "count"}
      [] name = "get_device_info" -> {"device_info"}
      [] name = "shell_command" -> {"output"}
      [] name \in BoolOps -> {"success"}

UnknownToolText(name) == <<"Unknown", SP, "tool", ":", SP, name>>

\* an argument list of the form ["shell", "getprop", ...] or ["-s", id, "shell", "getprop"]
IsGetpropArgs(args) ==
    \/ Slice(args, 0, 2) = <<W("shell"), W("getprop")>>
    \/ Len(args) = 4 /\ args[1] = W("-s") /\ Slice(args, 2, 4) = <<W("shell"), W("getprop")>>

----------------------------------------------------------------------------
(* C1..C10.                                                                *)

\* C1 (as claimed): a dispatch of a registry tool without one of its required
\* keys answers with an error object of kind InvalidParams and invokes neither
\* the Command Runner nor the Mock Responder.
C1_MissingKeyIsInvalidParams ==
    (entry = "dispatch" /\ req.name \in get_all_tool_names /\ ~RequiredPresent)
        => /\ resp.ok
           /\ IsErrorObject(ResponseObject)
           /\ ResponseObject.type = "InvalidParams"
           /\ NoBackend(resp.trace)

\* C2 (as claimed): a dispatch of a name outside the registry answers with an
\* error object of kind UnknownTool and invokes no facade operation.
C2_UnknownToolKind ==
    (entry = "dispatch" /\ req.name \notin get_all_tool_names)
        => /\ resp.ok
           /\ IsErrorObject(ResponseObject)
           /\ ResponseObject.type = "UnknownTool"
           /\ resp.trace = <<>>

\* C2 (amended): a dispatch of a name outside the registry answers with the
\* error object {"error": "Unknown tool: <name>", "type": "UnknownError"} and
\* invokes no facade operation and no backend.
C2_UnknownToolIsUnknownError ==
    (entry = "dispatch" /\ req.name \notin get_all_tool_names)
        => /\ resp.ok
           /\ ResponseObject = [error |-> UnknownToolText(req.name), type |-> "UnknownError"]
           /\ resp.trace = <<>>

C2_Witness ==
    /\ entry = "dispatch"
    /\ req.name = "reboot"
    /\ DOMAIN req.arguments = {"device_id"}
    /\ ResponseObject.type = "UnknownError"

\* C3 (as claimed): every registry tool dispatched with its required keys
\* reaches its facade operation, and uninstall_app with package_name answers
\* with the success object {"success": bool}.
C3_RegistryToolsAccepted ==
    (entry = "dispatch" /\ req.name \in get_all_tool_names /\ RequiredPresent)
        => /\ resp.ok
           /\ resp.trace # <<>>
           /\ resp.trace[1] = req.name
           /\ req.name = "uninstall_app"
                 => /\ DOMAIN ResponseObject = {"success"}
                    /\ ResponseObject.success \in BOOLEAN

\* C4: every dispatch call, whatever the tool name, the argument bag and the
\* backend outcome, returns (never raises) exactly one response whose object is
\* the tool's success object or {"error": text, "type": "ADBError" | "UnknownError"}.
C4_OneWellFormedResponse ==
    entry = "dispatch"
        => /\ resp.ok
           /\ Len(resp.val) = 1
           /\ resp.val[1].type = "text"
           /\ \/ /\ IsErrorObject(ResponseObject)
                 /\ ResponseObject.type \in {"ADBError", "UnknownError"}
              \/ /\ req.name \in get_all_tool_names
                 /\ DOMAIN ResponseObject = SuccessKeys(req.name)

C4_Witness ==
    /\ entry = "dispatch"
    /\ req.name = "shell_command"
    /\ RequiredPresent
    /\ req.outcome.kind = "launch"
    /\ IsErrorObject(ResponseObject)
    /\ ResponseObject.type = "ADBError"

\* C5: dispatch keeps no state between calls: after any prefix of calls, failed
\* ones included, the facade object is the one the constructor built and the
\* response to a call is the response the same call gets as the first call.
C5_Stateless ==
    entry = "dispatch"
        => /\ adb_tools = ADBTools_init(ctor)
           /\ resp = handle_call_tool(ADBTools_init(ctor), req.name, req.arguments,
                                      req.outcome)

C5_Witness ==
    /\ entry = "dispatch"
    /\ failures >= 1
    /\ ~adb_tools.mock_mode
    /\ req.name = "list_devices"
    /\ "devices" \in DOMAIN ResponseObject
    /\ ResponseObject.count = 1

\* C6: in real mode a failure of the Command Runner leaves list_devices,
\* get_device_info and shell_command as the very exception the runner raised,
\* and dispatch answers {"error": that text, "type": "ADBError"}; on a non-zero
\* exit the text contains the trimmed stderr.  No empty result stands in.
C6_ReadFailuresPropagate ==
    (/\ entry \in {"facade", "dispatch"}
     /\ ~adb_tools.mock_mode
     /\ req.name \in ReadOps
     /\ RequiredPresent
     /\ RunnerFailed)
        => LET f == _run_command(adb_tools, <<>>, req.outcome)
           IN  /\ ~f.ok
               /\ req.outcome.kind = "exit" => Contains(f.msg, Trim(req.outcome.stderr))
               /\ IF entry = "facade"
                  THEN ~resp.ok /\ resp.exc = "ADBError" /\ resp.msg = f.msg
                  ELSE /\ resp.ok
                       /\ ResponseObject = [error |-> f.msg, type |-> "ADBError"]

C6_Witness ==
    /\ entry = "dispatch"
    /\ ~adb_tools.mock_mode
    /\ req.name = "list_devices"
    /\ req.outcome.kind = "exit"
    /\ req.outcome.code = 1
    /\ req.outcome.stderr = <<"device", SP, "not", SP, "found">>
    /\ ResponseObject.type = "ADBError"
    /\ Contains(ResponseObject.error, <<"device", SP, "not", SP, "found">>)

\* C7: install_app, uninstall_app, push_file and pull_file never raise; they
\* return true exactly when the command run completed without a failure (in
\* mock mode, always) and false on a non-zero exit, a missing executable or any
\* other launch/IO fault.
C7_BoolOpsCollapseFailures ==
    (entry = "facade" /\ req.name \in BoolOps)
        => /\ resp.ok
           /\ resp.val \in BOOLEAN
           /\ resp.val <=> (adb_tools.mock_mode \/ ~RunnerFailed)

C7_Witness ==
    /\ entry = "facade"
    /\ req.name = "uninstall_app"
    /\ ~adb_tools.mock_mode
    /\ req.outcome.kind = "notfound"
    /\ resp.ok
    /\ resp.val = FALSE

\* C8 (as claimed): the Command Runner tells its failure causes apart: a missing
\* executable gives the not-found error, a non-zero exit gives the command-failed
\* error "ADB command failed: <trimmed stderr>", only other launch/IO faults give
\* the execution error "Failed to execute ADB command: <cause>", and exit 0
\* returns the trimmed stdout.
C8_RunnerOutcomes ==
    (entry = "runner" /\ ~adb_tools.mock_mode)
        => CASE req.outcome.kind = "notfound" ->
                  ~resp.ok /\ resp.msg = NotFoundPrefix \o adb_tools.adb_path
             [] req.outcome.kind \in {"launch", "io"} ->
                  ~resp.ok /\ resp.msg = ExecutionErrorPrefix \o req.outcome.cause
             [] req.outcome.kind = "exit" /\ req.outcome.code # 0 ->
                  ~resp.ok /\ resp.msg = CommandFailedPrefix \o Trim(req.outcome.stderr)
             [] req.outcome.kind = "exit" /\ req.outcome.code = 0 ->
                  resp.ok /\ resp.val = Trim(req.outcome.stdout)

\* C9 (as claimed): the Mock Responder returns a string, and never raises, for
\* every argument list, the empty list and one-element lists included.
C9_MockNeverRaises ==
    entry = "mock" => resp.ok

\* C10 (as claimed): in mock mode every argument list ["shell", "getprop", ...]
\* or ["-s", id, "shell", "getprop"] gets the fixed five-line property dump, and
\* get_device_info returns the same five-entry map for every device id.
C10_GetpropForEveryDevice ==
    /\ (entry = "runner" /\ adb_tools.mock_mode /\ IsGetpropArgs(req.arguments))
          => resp.ok /\ resp.val = MockGetpropText
    /\ (entry = "facade" /\ adb_tools.mock_mode /\ req.name = "get_device_info")
          => /\ resp.ok
             /\ Cardinality(DOMAIN resp.val) = 5
             /\ resp.val = get_device_info(adb_tools, None, NoOutcome).val

----------------------------------------------------------------------------
(* C11..C18.                                                               *)

\* the Mock Responder's answer as the documented priority list gives it
MockDocumented(args) ==
    IF args = <<W("devices"), W("-l")>> THEN MockDevicesText
    ELSE IF IsGetpropArgs(args) THEN MockGetpropText
    ELSE IF In(W("shell"), args)
    THEN MockOutputPrefix \o Join(Slice(args, Index(W("shell"), args), Len(args)), SP)
    ELSE IF In(W("install"), args) THEN W("Success")
    ELSE IF In(W("uninstall"), args) THEN W("Success")
    ELSE IF In(W("push"), args) \/ In(W("pull"), args)
    THEN <<"Transferred", SP, "successfully">>
    ELSE MockResponsePrefix \o Join(args, SP)

\* C11 (as claimed): the Mock Responder answers every argument list with the
\* text of the first matching pattern of the documented order: the exact
\* ["devices", "-l"] listing, the shell+getprop dump, any list containing
\* "shell", then "install", "uninstall", "push"/"pull", else the default text.
C11_MockPriorityOrder ==
    entry = "mock" => resp.ok /\ resp.val = MockDocumented(req.arguments)

----------------------------------------------------------------------------
(* list_devices alone, on every device listing of up to MaxDeviceLines     *)
(* lines after the header.                                                 *)

\* the lines after the header in one listing
MaxDeviceLines == 2

ListingHeader == <<"List", SP, "of", SP, "devices", SP, "attached">>

\* the tokens that may follow the serial and the state on a line
ExtraTokens ==
    { <<"usb", ":", "1-1">>, <<"a", ":", "b", ":", "c">>, <<"id", ":", "zz">>,
      <<"id", ":">>, <<"status", ":", "off">>, <<"noval">> }

ExtraLists ==
    {<<>>} \cup {<<t>> : t \in ExtraTokens} \cup {<<t, u>> : t \in ExtraTokens, u \in ExtraTokens}

DeviceLines ==
    { <<>>, <<SP>>, <<"lonely">>, <<SP, "lonely", TAB>>,
      <<"0a38", SP, SP, "offline">> }
    \cup {Join(<<W("emulator-5554") \o <<TAB>> \o W("device")>> \o extras, SP) :
              extras \in ExtraLists}

DeviceTexts ==
    {Join(<<ListingHeader>> \o lines, NL) :
         lines \in UNION {[1..n -> DeviceLines] : n \in 0..MaxDeviceLines}}

InitDevices ==
    /\ ctor = [adb_path |-> W("adb"), mock_mode |-> FALSE, probe |-> "ok"]
    /\ adb_tools = ADBTools_init(ctor)
    /\ entry = "input"
    /\ req \in {Request("list_devices", EmptyDict, Outcome("exit", 0, text, <<>>, <<>>)) :
                    text \in DeviceTexts}
    /\ resp = NoResponse
    /\ failures = 0
    /\ tasks = NoTasks

\* adb prints the listing and list_devices parses it
DevicesCall ==
    /\ entry = "input"
    /\ entry' = "parsed"
    /\ resp' = list_devices(adb_tools, req.outcome)
    /\ UNCHANGED <<ctor, adb_tools, req, failures, tasks>>

NextDevices == DevicesCall

SpecDevices == InitDevices /\ [][NextDevices]_vars

\* the text the parser of the call in progress is given: the runner's output
ParserInput == Trim(req.outcome.stdout)

\* the lines after the header that have at least two whitespace-separated tokens
HasTwoTokens(line) == Len(SplitWs(line)) >= 2
DeviceRows == SelectSeq(Tail(SplitOn(ParserInput, NL)), HasTwoTokens)

\* the tokens after the second that contain ':'
ExtraFields(parts) == {j \in 3..Len(parts) : Contains(parts[j], <<":">>)}
KeyOf(part) == SplitFirst(part, <<":">>)[1]
ValueOf(part) == SplitFirst(part, <<":">>)[2]

\* C12 (as claimed): for every listing, list_devices returns one record per
\* non-blank line with at least two tokens, in input order, whose id is token 0,
\* whose status is token 1 and which has one more field per later token that
\* contains ':' (split at the first ':'; of two tokens with one key the later
\* gives the value); a header-only listing gives the empty list.
C12_OneRecordPerLine ==
    entry = "parsed" =>
        /\ resp.ok
        /\ Len(resp.val) = Len(DeviceRows)
        /\ \A i \in 1..Len(DeviceRows) :
               LET parts == SplitWs(DeviceRows[i])
                   device_info == resp.val[i]
               IN  /\ DOMAIN device_info =
                          {W("id"), W("status")}
                              \cup {KeyOf(parts[j]) : j \in ExtraFields(parts)}
                   /\ device_info[W("id")] = parts[1]
                   /\ device_info[W("status")] = parts[2]
                   /\ \A j \in ExtraFields(parts) :
                          (\A k \in ExtraFields(parts) :
                               k > j => KeyOf(parts[k]) # KeyOf(parts[j]))
                              => device_info[KeyOf(parts[j])] = ValueOf(parts[j])

\* C13 (as claimed): on every text the parser never raises, and every record it
\* returns has the fields id and status, the id being non-empty.
C13_RecordsHaveId ==
    entry = "parsed" =>
        /\ resp.ok
        /\ \A i \in 1..Len(resp.val) :
               /\ {W("id"), W("status")} \subseteq DOMAIN resp.val[i]
               /\ resp.val[i][W("id")] # <<>>

----------------------------------------------------------------------------
(* get_device_info alone, on every property dump of up to MaxPropLines     *)
(* lines.                                                                  *)

\* the lines of one dump
MaxPropLines == 3

PropLines ==
    { <<"[", "k", "]", ":", SP, "[", "v", "]">>,
      <<"[", "k", "]", ":", SP, "[", "w", "]">>,
      <<"[", "j", "]", ":", SP, "[", "v", "]">>,
      <<"k", ":", SP, "[", "v">>,
      <<"garbage">>,
      <<>>,
      <<"[", "k", "]", ":", SP, "[", "v", "]", ":", SP, "[", "x", "]">>,
      <<"[", "[", "k", "]", "]", ":", SP, "[", "v", "]", "]">>,
      <<"[", "k", "]", ":", "[", "v", "]">>,
      <<":", SP, "[">>,
      <<"[", "a", SP, "b", "]", ":", SP, "[", "c", SP, "d", "]">>,
      <<"[", "k", "]", SP, ":", SP, "[", "v", "]">> }

PropTexts ==
    {Join(lines, NL) : lines \in UNION {[1..n -> PropLines] : n \in 0..MaxPropLines}}

InitProps ==
    /\ ctor = [adb_path |-> W("adb"), mock_mode |-> FALSE, probe |-> "ok"]
    /\ adb_tools = ADBTools_init(ctor)
    /\ entry = "input"
    /\ req \in {Request("get_device_info", EmptyDict, Outcome("exit", 0, text, <<>>, <<>>)) :
                    text \in PropTexts}
    /\ resp = NoResponse
    /\ failures = 0
    /\ tasks = NoTasks

\* adb prints the dump and get_device_info parses it
PropsCall ==
    /\ entry = "input"
    /\ entry' = "parsed"
    /\ resp' = get_device_info(adb_tools, ArgGet(req.arguments, "device_id"), req.outcome)
    /\ UNCHANGED <<ctor, adb_tools, req, failures, tasks>>

NextProps == PropsCall

SpecProps == InitProps /\ [][NextProps]_vars

\* the lines of the dump that contain ': ['
HasMarker(line) == Contains(line, <<":", SP, "[">>)
PropRows == SelectSeq(SplitOn(ParserInput, NL), HasMarker)

\* the text left of the first ': [' without its leading and trailing brackets,
\* and the text right of it without its trailing ']'
PropKey(line) == Strip(SplitFirst(line, <<":", SP, "[">>)[1], {"[", "]"})
PropValue(line) == RStrip(SplitFirst(line, <<":", SP, "[">>)[2], {"]"})

\* row i is the last row of its key
LastOfKey(i) ==
    \A j \in 1..Len(PropRows) : j > i => PropKey(PropRows[j]) # PropKey(PropRows[i])

\* row i is exactly '[k]: [v]' with plain k and v
IsPlainRow(i) ==
    LET row == PropRows[i]
    IN  /\ Len(row) = 8
        /\ <<row[1], row[3], row[4], row[5], row[6], row[8]>> = <<"[", "]", ":", SP, "[", "]">>
        /\ {row[2], row[7]} \cap {SP, TAB, NL, ":", "[", "]"} = {}

\* C14: for every property dump get_device_info returns, without failing, the
\* map built only from the lines that contain ': [': each is split at its first
\* ': [', the left part without leading and trailing '[' and ']' is the key, the
\* right part without trailing ']' is the value, so a line '[k]: [v]' maps k to
\* v; when a key appears on several lines the last line gives the value.
C14_PropsFromMarkedLines ==
    entry = "parsed" =>
        /\ resp.ok
        /\ DOMAIN resp.val = {PropKey(PropRows[i]) : i \in 1..Len(PropRows)}
        /\ \A i \in 1..Len(PropRows) :
               LastOfKey(i) =>
                   /\ resp.val[PropKey(PropRows[i])] = PropValue(PropRows[i])
                   /\ IsPlainRow(i) => resp.val[<<PropRows[i][2]>>] = <<PropRows[i][7]>>

\* a dump with two lines of one key and different values, and a line without
\* ': [', has been parsed
C14_Witness ==
    /\ entry = "parsed"
    /\ Len(PropRows) = 2
    /\ PropKey(PropRows[1]) = PropKey(PropRows[2])
    /\ PropValue(PropRows[1]) # PropValue(PropRows[2])
    /\ IsPlainRow(2)
    /\ Len(SplitOn(ParserInput, NL)) = 3

----------------------------------------------------------------------------
\* C15: in mock mode list_devices() returns exactly two records, the first with
\* id mock_device_001, status device, product sdk_gphone64_x86_64 and model
\* Android_SDK_built_for_x86_64, the second with id mock_device_002; and
\* get_device_info() without a device id returns a map of exactly five entries,
\* among them ro.build.version.release = 14 and ro.hardware = ranchu.
C15_MockData ==
    (entry = "facade" /\ adb_tools.mock_mode) =>
        /\ req.name = "list_devices" =>
               /\ resp.ok
               /\ Len(resp.val) = 2
               /\ resp.val[1][W("id")] = W("mock_device_001")
               /\ resp.val[1][W("status")] = W("device")
               /\ resp.val[1][W("product")] = W("sdk_gphone64_x86_64")
               /\ resp.val[1][W("model")] = W("Android_SDK_built_for_x86_64")
               /\ resp.val[2][W("id")] = W("mock_device_002")
        /\ (req.name = "get_device_info" /\ "device_id" \notin DOMAIN req.arguments) =>
               /\ resp.ok
               /\ Cardinality(DOMAIN resp.val) = 5
               /\ resp.val[W("ro.build.version.release")] = W("14")
               /\ resp.val[W("ro.hardware")] = W("ranchu")

\* list_devices() has answered in mock mode
C15_Witness ==
    /\ entry = "facade"
    /\ adb_tools.mock_mode
    /\ req.name = "list_devices"
    /\ resp.ok
    /\ Len(resp.val) = 2

----------------------------------------------------------------------------
\* the arguments of an operation without the device selector
OwnArgs(name, arguments) ==
    CASE name = "list_devices" -> <<W("devices"), W("-l")>>
      [] name = "get_device_info" -> <<W("shell"), W("getprop")>>
      [] name = "shell_command" -> <<W("shell"), arguments["command"]>>
      [] name = "install_app" -> <<W("install"), arguments["apk_path"]>>
      [] name = "uninstall_app" -> <<W("uninstall"), arguments["package_name"]>>
      [] name = "push_file" ->
           <<W("push"), arguments["local_path"], arguments["remote_path"]>>
      [] name = "pull_file" ->
           <<W("pull"), arguments["remote_path"], arguments["local_path"]>>

\* the call in progress was given a device identifier: a non-empty string
\* (an empty string names no device and counts as none)
IdSupplied == "device_id" \in DOMAIN req.arguments /\ req.arguments["device_id"] # <<>>

\* C17: every facade operation that takes a device id calls the runner with
\* ["-s", <id>] + its own arguments when a device identifier is supplied and
\* with its own arguments alone when none is; list_devices always runs exactly
\* ["devices", "-l"]; shell_command passes the command string as one single
\* argument after "shell" and returns the runner's output unmodified.
C17_ArgumentVectors ==
    entry = "facade" =>
        /\ resp.argv =
               (IF req.name # "list_devices" /\ IdSupplied
                THEN <<W("-s"), req.arguments["device_id"]>> ELSE <<>>)
                   \o OwnArgs(req.name, req.arguments)
        /\ req.name = "shell_command" =>
               LET r == _run_command(adb_tools, resp.argv, req.outcome)
               IN  /\ resp.argv[Len(resp.argv)] = req.arguments["command"]
                   /\ resp.argv[Len(resp.argv) - 1] = W("shell")
                   /\ resp.ok = r.ok
                   /\ resp.val = r.val

\* shell_command("ls /", device_id) has run with a device identifier: the
\* runner got the command as one argument behind the selector
C17_Witness ==
    /\ entry = "facade"
    /\ req.name = "shell_command"
    /\ IdSupplied
    /\ req.arguments["command"] = <<"ls", SP, "/">>
    /\ Len(resp.argv) = 4
    /\ resp.ok

----------------------------------------------------------------------------
\* the constructor was asked for mock mode, or its probe of the executable failed
MockDecided == ctor.mock_mode \/ ctor.probe \in {"notfound", "failed"}

\* C18: the executable path and the mock-mode flag are fixed once the
\* constructor has returned: no facade or dispatch operation changes them; and
\* whenever the flag is true, by request or by a failed probe, every operation
\* that reaches the backend is answered by the Mock Responder and no child
\* process is spawned.
C18_ConfigFixed ==
    /\ [][adb_tools' = adb_tools]_vars
    /\ [](/\ adb_tools.adb_path = ctor.adb_path
          /\ adb_tools.mock_mode = MockDecided
          /\ (MockDecided /\ entry \in {"dispatch", "facade", "runner"}) =>
                 /\ ~In("run", resp.trace)
                 /\ ~In("spawn", resp.trace)
                 /\ entry \in {"facade", "runner"} => In("mock", resp.trace))

\* after earlier failed calls, a facade operation of an object whose probe
\* failed has been answered by the Mock Responder
C18_Witness ==
    /\ entry = "facade"
    /\ ~ctor.mock_mode
    /\ ctor.probe = "failed"
    /\ adb_tools.mock_mode
    /\ failures > 0
    /\ In("mock", resp.trace)

----------------------------------------------------------------------------
(* Facade calls issued concurrently on one event loop.  A coroutine runs   *)
(* until it awaits: at create_subprocess_exec and at process.communicate() *)
(* of _run_command; between two awaits no other coroutine runs.            *)

\* the calls issued concurrently, and the child processes they may meet
TaskCalls ==
    { Request("list_devices", EmptyDict, NoOutcome),
      Request("get_device_info", [device_id |-> W("mock_device_001")], NoOutcome),
      Request("shell_command", [command |-> <<"ls", SP, "/">>], NoOutcome),
      Request("install_app", [apk_path |-> W("/tmp/app.apk")], NoOutcome) }

TaskOutcomes(self) ==
    IF self.mock_mode THEN {NoOutcome}
    ELSE { Outcome("exit", 0,
                   <<"List", SP, "of", SP, "devices", SP, "attached", NL>> \o DeviceLine,
                   <<>>, <<>>),
           Outcome("exit", 0, <<"[", "ro.hardware", "]", ":", SP, "[", "qcom", "]", NL>>,
                   <<>>, <<>>),
           Outcome("exit", 1, <<>>, <<"device", SP, "not", SP, "found">>, <<>>),
           Outcome("notfound", 0, <<>>, <<>>,
                   <<"[", "Errno", SP, "2", "]", SP, "No", SP, "such", SP, "file">>),
           Outcome("io", 0, <<>>, <<>>,
                   <<"[", "Errno", SP, "32", "]", SP, "Broken", SP, "pipe">>) }

InitTasks ==
    /\ ctor \in CtorInputs
    /\ adb_tools = ADBTools_init(ctor)
    /\ entry = "loop"
    /\ req = NoRequest
    /\ resp = NoResponse
    /\ failures = 0
    /\ tasks = NoTasks

\* a facade coroutine starts and runs to its first await; in mock mode it has
\* none and runs to its end
TaskStart(i, call, outcome) ==
    /\ tasks[i].pc = "idle"
    /\ tasks' = [tasks EXCEPT ![i] =
           IF adb_tools.mock_mode
           THEN [pc |-> "done", req |-> Request(call.name, call.arguments, outcome),
                 process |-> NoOutcome, spawned |-> 0,
                 resp |-> facade_call(adb_tools, call.name, call.arguments, outcome)]
           ELSE [pc |-> "launch", req |-> Request(call.name, call.arguments, outcome),
                 process |-> NoOutcome, spawned |-> 0, resp |-> NoResponse]]
    /\ UNCHANGED <<ctor, adb_tools, entry, req, resp, failures>>

\* mutant: the child process is kept in an attribute of the shared ADBTools
\* object, so a later launch replaces the process other coroutines wait for
TaskLaunch_sharedProcess(i) ==
    /\ tasks[i].pc = "launch"
    /\ LET t == tasks[i]
       IN  tasks' = [j \in DOMAIN tasks |->
               IF j = i
               THEN IF t.req.outcome.kind \in {"notfound", "launch"}
                    THEN [t EXCEPT !.pc = "done", !.spawned = @ + 1,
                                   !.resp = facade_call(adb_tools, t.req.name,
                                                        t.req.arguments, t.req.outcome)]
                    ELSE [t EXCEPT !.pc = "communicate", !.spawned = @ + 1,
                                   !.process = t.req.outcome]
               ELSE IF tasks[j].pc = "communicate"
                       /\ t.req.outcome.kind \notin {"notfound", "launch"}
               THEN [tasks[j] EXCEPT !.process = t.req.outcome]
               ELSE tasks[j]]
    /\ UNCHANGED <<ctor, adb_tools, entry, req, resp, failures>>

\* create_subprocess_exec completes: it raised and the call ends in its except
\* clause, or the child is held in the local `process` and the coroutine awaits
\* communicate()
TaskLaunch(i) ==
    /\ tasks[i].pc = "launch"
    /\ LET t == tasks[i]
       IN  tasks' = [tasks EXCEPT ![i] =
               IF t.req.outcome.kind \in {"notfound", "launch"}
               THEN [t EXCEPT !.pc = "done", !.spawned = @ + 1,
                              !.resp = facade_call(adb_tools, t.req.name,
                                                   t.req.arguments, t.req.outcome)]
               ELSE [t EXCEPT !.pc = "communicate", !.spawned = @ + 1,
                              !.process = t.req.outcome]]
    /\ UNCHANGED <<ctor, adb_tools, entry, req, resp, failures>>

\* communicate() of the local `process` completes and the call runs to its end
TaskCommunicate(i) ==
    /\ tasks[i].pc = "communicate"
    /\ LET t == tasks[i]
       IN  tasks' = [tasks EXCEPT ![i] =
               [t EXCEPT !.pc = "done",
                         !.resp = facade_call(adb_tools, t.req.name,
                                              t.req.arguments, t.process)]]
    /\ UNCHANGED <<ctor, adb_tools, entry, req, resp, failures>>

\* the caller takes the result and the coroutine is gone
TaskReturn(i) ==
    /\ tasks[i].pc = "done"
    /\ tasks' = [tasks EXCEPT ![i] = NoTask]
    /\ UNCHANGED <<ctor, adb_tools, entry, req, resp, failures>>

Start ==
    \E i \in 1..MaxTasks, call \in TaskCalls, outcome \in TaskOutcomes(adb_tools) :
        TaskStart(i, call, outcome)

Launch == \E i \in 1..MaxTasks : TaskLaunch(i)

Communicate == \E i \in 1..MaxTasks : TaskCommunicate(i)

Finish == \E i \in 1..MaxTasks : TaskReturn(i)

NextTasks == Start \/ Launch \/ Communicate \/ Finish

SpecTasks == InitTasks /\ [][NextTasks]_vars

\* how often an event is in a trace
Count(event, trace) == Cardinality({k \in 1..Len(trace) : trace[k] = event})

====
